---- MODULE Spec2Model ----
(***************************************************************************)
(* Docusaurus editor: the documents tree, its ordering metadata and the    *)
(* drag-and-drop reorder transaction.                                      *)
(*                                                                         *)
(* The file system is a table of inodes.  An inode is a document (.md), a  *)
(* directory, an image file, or free.  A document carries the state of its *)
(* frontmatter (parseable or not, sidebar_position present or not); a      *)
(* directory carries the state of its _category_.json sidecar (absent,     *)
(* malformed, or parseable with or without a position).                    *)
(*                                                                         *)
(* Specifications: Spec (drag-and-drop), SpecFaults (drag-and-drop with a  *)
(* metadata file that cannot be written), SpecTree (tree builders),        *)
(* SpecCategory (category creation and new documents), SpecSidecar         *)
(* (category settings), SpecDelete (deletions), SpecRoots (documents       *)
(* roots found by a refresh), SpecFrontmatter (drag-and-drop over a        *)
(* hand-written document), SpecGroup (drag-and-drop of image groups),      *)
(* SpecScan (tree builders on unreadable folders), SpecForm (the category  *)
(* confirmation form, with fairness), SpecContent (content type switches). *)
(***************************************************************************)
EXTENDS Integers, Sequences, FiniteSets, TLC

VARIABLES fs, last, children, imagesFolderMap, locked, panel, roots, content

vars == <<fs, last, children, imagesFolderMap, locked, panel, roots, content>>

(***************************************************************************)
(* Bounds and program constants                                            *)
(***************************************************************************)
NumInodes == 8
MaxInitPos == 2
MaxTreePos == 3
MaxPosition == 3
MaxEntries == 5

DefaultPosition == 999
ImageGroupPosition == 1000

Ids == 1..NumInodes
Root == 0
NoItem == 0 - 1

\* Labels in localeCompare order; the index is the collation rank.  A group
\* label "images (n)" or "Images (n)" collates right after "images".
Collation == <<"a", "a.md", "api", "b", "b.md", "c", "c.md", "d", "d.md", "guide", "images", "(group)", "x.png", "y.png">>

ImageFolderNames == <<"images", "img", "assets", "static">>

GroupLabel(name, n) == name \o " (" \o ToString(n) \o ")"

GroupLabels(names) == {GroupLabel(nm, n) : nm \in names, n \in 0..NumInodes}

\* /^(images|img|assets|static)\s*\(\d+\)$/.test(label)
isImageFolder(label) == label \in GroupLabels({ImageFolderNames[k] : k \in 1..Len(ImageFolderNames)})

LabelRank(l) ==
    LET key == IF \E i \in 1..Len(Collation) : Collation[i] = l THEN l ELSE "(group)"
    IN  CHOOSE i \in 1..Len(Collation) : Collation[i] = key

\* a.label.localeCompare(b.label) < 0
LabelLess(a, b) == LabelRank(a.label) < LabelRank(b.label)

\* entry.replace(/\.mdx?$/, '')
StripMdx(n) ==
    IF n = "a.md" THEN "a" ELSE IF n = "b.md" THEN "b" ELSE IF n = "c.md" THEN "c"
    ELSE IF n = "d.md" THEN "d" ELSE n

\* What a metadata block (a _category_.json, the frontmatter of a document)
\* holds besides its position: nothing.  For a document label is its title,
\* description its id, extra the presence of keys the program does not know.
NoConfig == [label |-> "", link |-> "", description |-> "", extra |-> FALSE]

\* The Markdown body of a document, one character per element; a document
\* made by the program ends with a newline.
NoBody == <<>>
DefaultBody == <<"B", "\n">>

Free == [kind |-> "none", name |-> "", parent |-> Root, st |-> "absent", has |-> FALSE, pos |-> 0,
         cfg |-> NoConfig, body |-> NoBody]

Doc(n, p, st, has, pos) ==
    [kind |-> "doc", name |-> n, parent |-> p, st |-> st, has |-> has, pos |-> pos, cfg |-> NoConfig,
     body |-> DefaultBody]

Dir(n, p, st, has, pos) ==
    [kind |-> "dir", name |-> n, parent |-> p, st |-> st, has |-> has, pos |-> pos, cfg |-> NoConfig,
     body |-> NoBody]

Img(n, p) ==
    [kind |-> "img", name |-> n, parent |-> p, st |-> "absent", has |-> FALSE, pos |-> 0, cfg |-> NoConfig,
     body |-> NoBody]

(***************************************************************************)
(* Node's fs primitives                                                    *)
(***************************************************************************)
Exists(f, id) == id = Root \/ (id \in Ids /\ f[id].kind # "none")

IsDirectory(f, id) == id = Root \/ (id \in Ids /\ f[id].kind = "dir")

EntriesOf(f, d) == {i \in Ids : f[i].kind # "none" /\ f[i].parent = d}

\* Directory order is the file system's own and is stable between two reads:
\* the entries of d in inode order.
readdirSync(f, d) ==
    LET S == EntriesOf(f, d)
        n == Cardinality(S)
    IN  [k \in 1..n |-> CHOOSE i \in S : Cardinality({j \in S : j < i}) = k - 1]

Lookup(f, d, n) == {i \in EntriesOf(f, d) : f[i].name = n}

RECURSIVE IsUnder(_, _, _)
IsUnder(f, d, anc) ==
    \/ d = anc
    \/ d # Root /\ IsUnder(f, f[d].parent, anc)

\* path.dirname of an item's filePath
dirname(f, id) == f[id].parent

RECURSIVE PathOf(_, _)
PathOf(f, id) == IF id = Root THEN <<>> ELSE Append(PathOf(f, f[id].parent), f[id].name)

\* fs.renameSync(sourcePath, path.join(targetDir, basename(sourcePath))).
\* io = FALSE is a failure of the environment (permissions, vanished source).
renameSync(f, src, targetDir, io) ==
    LET hit == Lookup(f, targetDir, f[src].name)
        moved == [f EXCEPT ![src].parent = targetDir]
    IN  IF ~io \/ ~Exists(f, src) \/ ~IsDirectory(f, targetDir)
        THEN [ok |-> FALSE, fs |-> f]
        ELSE IF f[src].kind = "dir" /\ IsUnder(f, targetDir, src)
        THEN [ok |-> FALSE, fs |-> f]
        ELSE IF hit = {}
        THEN [ok |-> TRUE, fs |-> moved]
        ELSE LET e == CHOOSE i \in hit : TRUE
             IN  IF e = src
                 THEN [ok |-> TRUE, fs |-> f]
                 ELSE IF f[src].kind # "dir" /\ f[e].kind # "dir"
                 THEN [ok |-> TRUE, fs |-> [moved EXCEPT ![e] = Free]]
                 ELSE IF f[src].kind = "dir" /\ f[e].kind = "dir" /\ EntriesOf(f, e) = {}
                 THEN [ok |-> TRUE, fs |-> [moved EXCEPT ![e] = Free]]
                 ELSE [ok |-> FALSE, fs |-> f]

(***************************************************************************)
(* Sorting: Array.prototype.sort is stable.  less[j][i] says whether the    *)
(* comparator puts s[j] strictly before s[i] (compare(s[j], s[i]) < 0).    *)
(***************************************************************************)
StableSort(s, less) ==
    LET n == Len(s)
        before(j, i) == \/ less[j][i]
                        \/ ~less[i][j] /\ j < i
        rank == [i \in 1..n |-> Cardinality({j \in 1..n : before(j, i)}) + 1]
    IN  [k \in 1..n |-> s[CHOOSE i \in 1..n : rank[i] = k]]

\* x || 999
OrDefault(has, pos) == IF has /\ pos # 0 THEN pos ELSE DefaultPosition

(***************************************************************************)
(* Reorder transaction (drag and drop)                                     *)
(***************************************************************************)
\* A comparator that never orders two items: the list stays in directory order.
ItemLessNever(a, b) == FALSE

ItemLess(a, b) == a.position < b.position

\* One entry of the directory scan; listed says whether it is pushed.
ScanEntry(f, i) ==
    IF f[i].kind = "dir"
    THEN [id |-> i, type |-> "folder", listed |-> TRUE,
          position |-> IF f[i].st = "ok" THEN OrDefault(f[i].has, f[i].pos) ELSE DefaultPosition]
    ELSE IF f[i].kind = "doc"
    THEN [id |-> i, type |-> "file", listed |-> f[i].st = "ok",
          position |-> OrDefault(f[i].has, f[i].pos)]
    ELSE [id |-> i, type |-> "image", listed |-> FALSE, position |-> DefaultPosition]

IsListed(e) == e.listed

getItemsInDirectory(f, d) ==
    LET entries == readdirSync(f, d)
        scanned == [k \in 1..Len(entries) |-> ScanEntry(f, entries[k])]
        items == SelectSeq(scanned, IsListed)
    IN  StableSort(items, [j \in 1..Len(items) |-> [i \in 1..Len(items) |-> ItemLess(items[j], items[i])]])

\* newline(str) of gray-matter's stringify: the text ends with a newline.
newline(str) == IF str = <<>> \/ str[Len(str)] # "\n" THEN Append(str, "\n") ELSE str

\* matter.stringify(parsed.content, parsed.data): the frontmatter block with
\* every key of data, then newline(content).
stringify(doc, position) ==
    [doc EXCEPT !.has = TRUE, !.pos = position, !.body = newline(doc.body)]

\* fw is the inode whose file cannot be written (NoItem: every write succeeds).
updateMarkdownPosition(f, id, position, fw) ==
    IF f[id].kind # "doc" \/ f[id].st # "ok" \/ id = fw
    THEN f
    ELSE [f EXCEPT ![id] = stringify(f[id], position)]

updateCategoryPosition(f, id, position, fw) ==
    IF f[id].kind # "dir" \/ f[id].st = "bad" \/ id = fw
    THEN f
    ELSE [f EXCEPT ![id].st = "ok", ![id].has = TRUE, ![id].pos = position]

RECURSIVE updateFrom(_, _, _, _)
updateFrom(f, items, i, fw) ==
    IF i > Len(items)
    THEN f
    ELSE LET item == items[i]
             g == IF item.type = "file"
                  THEN updateMarkdownPosition(f, item.id, i, fw)
                  ELSE IF item.type = "folder"
                  THEN updateCategoryPosition(f, item.id, i, fw)
                  ELSE f
         IN  updateFrom(g, items, i + 1, fw)

updateItemPositions(f, items, fw) == updateFrom(f, items, 1, fw)

updatePositionsInFolder(f, d, fw) == updateItemPositions(f, getItemsInDirectory(f, d), fw)

findIndex(items, id) ==
    IF \E k \in 1..Len(items) : items[k].id = id
    THEN CHOOSE k \in 1..Len(items) : items[k].id = id /\ \A j \in 1..(k - 1) : items[j].id # id
    ELSE NoItem

\* items.splice(k, 1)
RemoveAt(items, k) == SubSeq(items, 1, k - 1) \o SubSeq(items, k + 1, Len(items))

\* items.splice(k, 0, x)
InsertAt(items, k, x) == SubSeq(items, 1, k - 1) \o <<x>> \o SubSeq(items, k, Len(items))

\* A move that renumbers the target folder whether or not the rename succeeded.
moveItemToFolderAlwaysRenumbers(f, src, targetDir, io, fw) ==
    LET r == renameSync(f, src, targetDir, io)
    IN  [fs |-> updatePositionsInFolder(r.fs, targetDir, fw), moved |-> r.ok, renumbered |-> TRUE]

moveItemToFolder(f, src, targetDir, io, fw) ==
    LET r == renameSync(f, src, targetDir, io)
    IN  IF r.ok
        THEN [fs |-> updatePositionsInFolder(r.fs, targetDir, fw), moved |-> TRUE, renumbered |-> TRUE]
        ELSE [fs |-> f, moved |-> FALSE, renumbered |-> FALSE]

\* A reorder without the same-directory check and without the check of the
\* target index: items.splice(-1, 0, x) inserts before the last element.
reorderItemsAnyDirectory(f, src, tgt, fw) ==
    LET items == getItemsInDirectory(f, dirname(f, src))
        sourceIndex == findIndex(items, src)
        rest == RemoveAt(items, sourceIndex)
        targetIndex == findIndex(rest, tgt)
        at == IF targetIndex # NoItem THEN targetIndex ELSE IF Len(rest) = 0 THEN 1 ELSE Len(rest)
    IN  IF sourceIndex = NoItem
        THEN [fs |-> f, moved |-> FALSE, renumbered |-> FALSE]
        ELSE [fs |-> updateItemPositions(f, InsertAt(rest, at, items[sourceIndex]), fw),
              moved |-> FALSE, renumbered |-> TRUE]

reorderItems(f, src, tgt, fw) ==
    LET sourceDir == dirname(f, src)
        targetDir == dirname(f, tgt)
        items == getItemsInDirectory(f, sourceDir)
        sourceIndex == findIndex(items, src)
        rest == RemoveAt(items, sourceIndex)
        targetIndex == findIndex(rest, tgt)
        same == [fs |-> f, moved |-> FALSE, renumbered |-> FALSE]
    IN  IF sourceDir # targetDir THEN same
        ELSE IF sourceIndex = NoItem THEN same
        ELSE IF targetIndex = NoItem THEN same
        ELSE [fs |-> updateItemPositions(f, InsertAt(rest, targetIndex, items[sourceIndex]), fw),
              moved |-> FALSE, renumbered |-> TRUE]

\* The type of the tree item shown for an inode.
ItemType(f, id) ==
    IF id = NoItem THEN "none"
    ELSE IF id = Root THEN "folder"
    ELSE IF f[id].kind = "dir" THEN "folder"
    ELSE IF f[id].kind = "doc" THEN "file"
    ELSE "image"

Sources(f) == {i \in Ids : f[i].kind # "none"}

Targets(f) == Sources(f) \cup {Root}

\* The inode whose metadata write fails during renumbering: none, or a file
\* that is locked (read-only, or held open by another program).
WriteFaults(src, io) == {NoItem} \cup locked

\* A position write of the renumbering of d fails: the file is locked, or the
\* folder's _category_.json cannot be parsed before it is rewritten.
PositionWriteFails(f, d, fw) ==
    \E i \in EntriesOf(f, d) :
        /\ ScanEntry(f, i).listed
        /\ i = fw \/ (f[i].kind = "dir" /\ f[i].st = "bad")

\* handleDrop with a folder target: moveItemToFolder, then refresh.
DropOnFolder ==
    \E src \in Sources(fs), tgt \in Targets(fs), io \in BOOLEAN :
      \E fw \in WriteFaults(src, io) :
        /\ ItemType(fs, tgt) = "folder"
        /\ LET r == moveItemToFolder(fs, src, tgt, io, fw)
           IN  /\ fs' = r.fs
               /\ last' = [op |-> "move", src |-> src, tgt |-> tgt, dir |-> tgt, io |-> io,
                           moved |-> r.moved, renumbered |-> r.renumbered,
                           fw |-> IF r.renumbered THEN fw ELSE NoItem,
                           failed |-> ~r.moved \/ PositionWriteFails(r.fs, tgt, fw),
                           error |-> ~r.moved, info |-> FALSE, refreshed |-> TRUE, answers |-> 0,
                           input |-> <<>>, steps |-> <<>>]
        /\ UNCHANGED <<children, imagesFolderMap, locked, panel, roots, content>>

\* handleDrop with a document target: reorderItems, then refresh.
DropOnFile ==
    \E src \in Sources(fs), tgt \in Targets(fs) :
      \E fw \in WriteFaults(src, TRUE) :
        /\ ItemType(fs, tgt) = "file"
        /\ LET r == reorderItems(fs, src, tgt, fw)
           IN  /\ fs' = r.fs
               /\ last' = [op |-> "reorder", src |-> src, tgt |-> tgt, dir |-> dirname(fs, src),
                           io |-> TRUE, moved |-> r.moved, renumbered |-> r.renumbered,
                           fw |-> IF r.renumbered THEN fw ELSE NoItem,
                           failed |-> r.renumbered /\ PositionWriteFails(r.fs, dirname(fs, src), fw),
                           error |-> FALSE, info |-> FALSE, refreshed |-> TRUE, answers |-> 0,
                           input |-> <<>>, steps |-> <<>>]
        /\ UNCHANGED <<children, imagesFolderMap, locked, panel, roots, content>>

\* handleDrop with no target or an image target: nothing but the refresh.
DropElsewhere ==
    \E src \in Sources(fs), tgt \in Targets(fs) \cup {NoItem} :
        /\ ItemType(fs, tgt) \in {"none", "image"}
        /\ last' = [op |-> "none", src |-> src, tgt |-> tgt, dir |-> Root, io |-> TRUE,
                    moved |-> FALSE, renumbered |-> FALSE, fw |-> NoItem,
                    failed |-> FALSE, error |-> FALSE, info |-> FALSE, refreshed |-> TRUE, answers |-> 0,
                           input |-> <<>>, steps |-> <<>>]
        /\ UNCHANGED <<fs, children, imagesFolderMap, locked, panel, roots, content>>

(***************************************************************************)
(* Initial states                                                          *)
(***************************************************************************)
InitPositions == 0..MaxInitPos

\* Frontmatter of a document: malformed, no sidebar_position, or a position.
DocMetas ==
    {[st |-> "bad", has |-> FALSE, pos |-> 0], [st |-> "ok", has |-> FALSE, pos |-> 0]}
    \cup {[st |-> "ok", has |-> TRUE, pos |-> p] : p \in InitPositions}

\* Sidecar of a folder: absent, malformed, without position, or a position.
DirMetas ==
    {[st |-> "absent", has |-> FALSE, pos |-> 0], [st |-> "bad", has |-> FALSE, pos |-> 0],
     [st |-> "ok", has |-> FALSE, pos |-> 0]}
    \cup {[st |-> "ok", has |-> TRUE, pos |-> p] : p \in InitPositions}

NoLast == [op |-> "init", src |-> NoItem, tgt |-> NoItem, dir |-> Root, io |-> TRUE,
           moved |-> FALSE, renumbered |-> FALSE, fw |-> NoItem,
           failed |-> FALSE, error |-> FALSE, info |-> FALSE, refreshed |-> FALSE, answers |-> 0,
           input |-> <<>>, steps |-> <<>>]

\* No category panel is open.
\* The values a category form can submit: the label is required, the position
\* is parseInt(..) || 1 of a number input with min="1".
Labels == {"Guide"}
Descriptions == {"", "d"}
FormData == [label : Labels, position : 1..MaxPosition, description : Descriptions]
NoData == [label |-> "", position |-> 0, description |-> ""]

\* The content types the extension holds before it is initialized for a root:
\* module is currentContentType of extension.ts; provider, category and
\* newFile are the fields of the tree data provider, the category handler and
\* the document handler the commands use ("none": not constructed yet); view:
\* was a tree view ever created.
NoContent == [module |-> "docs", provider |-> "none", category |-> "none", newFile |-> "none",
              view |-> FALSE]

NoPanel == [state |-> "Idle", path |-> <<>>, parent |-> Root, position |-> 0, data |-> NoData]

\* The project folder as loadDocusaurusConfig sees it, and the documents and
\* blog roots of the tree view.  config: is there a docusaurus.config.js/ts
\* and can it be read; docsPlugins, blogPlugins: the paths its plugin entries
\* name; dirs: the folders of the project root; md: those that hold markdown
\* files; blogLike: those whose markdown files look like blog posts.
NoWorkspace == [config |-> "none", docsPlugins |-> <<>>, blogPlugins |-> <<>>,
                dirs |-> {}, md |-> {}, blogLike |-> {}]

NoRoots == [ws |-> NoWorkspace, docsPaths |-> <<>>, blogPaths |-> <<>>, by |-> "init"]

\* docs/{b.md, a.md, guide/{a.md}}
Init ==
    /\ \E m1 \in DocMetas, m2 \in DocMetas, m3 \in DirMetas, m4 \in DocMetas :
         fs = [i \in Ids |->
                 IF i = 1 THEN Doc("b.md", Root, m1.st, m1.has, m1.pos)
                 ELSE IF i = 2 THEN Doc("a.md", Root, m2.st, m2.has, m2.pos)
                 ELSE IF i = 3 THEN Dir("guide", Root, m3.st, m3.has, m3.pos)
                 ELSE IF i = 4 THEN Doc("a.md", 3, m4.st, m4.has, m4.pos)
                 ELSE Free]
    /\ last = NoLast
    /\ children = <<>>
    /\ imagesFolderMap = {}
    /\ locked = {}
    /\ panel = NoPanel
    /\ roots = NoRoots
    /\ content = NoContent

Next == DropOnFolder \/ DropOnFile \/ DropElsewhere

Spec == Init /\ [][Next]_vars

\* Bodies of a hand-written document: empty, without and with a final newline.
Bodies == {<<>>, <<"B">>, <<"B", "\n">>}

\* Frontmatter of a hand-written document besides sidebar_position.
DocFields == [label |-> "X", link |-> "", description |-> "intro", extra |-> TRUE]

\* docs/{a.md, b.md, guide/}; a.md is hand-written.
InitFrontmatter ==
    /\ \E m1 \in DocMetas, m2 \in DocMetas, body \in Bodies, fields \in {NoConfig, DocFields} :
         fs = [i \in Ids |->
                 IF i = 1 THEN [Doc("a.md", Root, m1.st, m1.has, m1.pos)
                                   EXCEPT !.body = body, !.cfg = fields]
                 ELSE IF i = 2 THEN Doc("b.md", Root, m2.st, m2.has, m2.pos)
                 ELSE IF i = 3 THEN Dir("guide", Root, "absent", FALSE, 0)
                 ELSE Free]
    /\ last = NoLast
    /\ children = <<>>
    /\ imagesFolderMap = {}
    /\ locked = {}
    /\ panel = NoPanel
    /\ roots = NoRoots
    /\ content = NoContent

SpecFrontmatter == InitFrontmatter /\ [][Next]_vars

(***************************************************************************)
(* Tree model builder                                                      *)
(***************************************************************************)
TreeItem(label, type, id, path, has, position, kids) ==
    [label |-> label, type |-> type, id |-> id, path |-> path,
     has |-> has, position |-> position, children |-> kids]

IsImageItem(e) == e.type = "image"

IsTreeEntry(e) == e.type # "image"

\* One entry of the scan of the current tree view: position is left undefined
\* when the metadata has none or cannot be parsed.
ScanTreeEntry(f, i) ==
    LET known == f[i].st = "ok" /\ f[i].has
        type == IF f[i].kind = "dir" THEN "folder" ELSE IF f[i].kind = "doc" THEN "file" ELSE "image"
    IN  TreeItem(f[i].name, type, i, PathOf(f, i),
                 known /\ type # "image", IF known /\ type # "image" THEN f[i].pos ELSE 0, <<>>)

\* (a.position || 999) - (b.position || 999) < 0
PositionLess(a, b) == OrDefault(a.has, a.position) < OrDefault(b.has, b.position)

\* The first of images, img, assets, static that is a directory of the folder.
ExistingImageFolders(f, folder) ==
    {k \in 1..Len(ImageFolderNames) :
        \E i \in Lookup(f, folder, ImageFolderNames[k]) : f[i].kind = "dir"}

FreeIds(f) == {i \in Ids : f[i].kind = "none"}

\* fs.mkdirSync(path.join(folder, name), {recursive: true}); a failure is caught.
mkdirSync(f, folder, name, io) ==
    IF ~io \/ FreeIds(f) = {} \/ Lookup(f, folder, name) # {}
    THEN f
    ELSE LET i == CHOOSE i \in FreeIds(f) : \A j \in FreeIds(f) : i <= j
         IN  [f EXCEPT ![i] = Dir(name, folder, "absent", FALSE, 0)]

setImagesFolder(map, label, path) ==
    {e \in map : e.label # label} \cup {[label |-> label, path |-> path]}

\* getDocItemsFromPath of the current tree view (real image folder names).
getDocItemsFromPath(f, map, folder, io) ==
    LET entries == readdirSync(f, folder)
        scanned == [k \in 1..Len(entries) |-> ScanTreeEntry(f, entries[k])]
        pushed == SelectSeq(scanned, IsTreeEntry)
        images == SelectSeq(scanned, IsImageItem)
        items == StableSort(pushed, [j \in 1..Len(pushed) |-> [i \in 1..Len(pushed) |-> PositionLess(pushed[j], pushed[i])]])
        imageItems == StableSort(images, [j \in 1..Len(images) |-> [i \in 1..Len(images) |-> LabelLess(images[j], images[i])]])
        found == ExistingImageFolders(f, folder)
        imageFolderName == IF found = {} THEN "images"
                           ELSE ImageFolderNames[CHOOSE k \in found : \A j \in found : k <= j]
        imageFolderPath == Append(PathOf(f, folder), imageFolderName)
        imagesFolderLabel == GroupLabel(imageFolderName, Len(imageItems))
        imagesFolder == TreeItem(imagesFolderLabel, "folder", NoItem, imageFolderPath,
                                 TRUE, ImageGroupPosition, imageItems)
    IN  IF ~Exists(f, folder)
        THEN [items |-> <<>>, fs |-> f, map |-> map]
        ELSE IF Len(imageItems) = 0
        THEN [items |-> items, fs |-> f, map |-> map]
        ELSE [items |-> Append(items, imagesFolder),
              fs |-> IF found = {} THEN mkdirSync(f, folder, imageFolderName, io) ELSE f,
              map |-> setImagesFolder(map, imagesFolderLabel, imageFolderPath)]

\* One entry of the scan of the earlier tree view (virtual "Images" folder):
\* a position is kept only when it is a number.
ScanVirtualEntry(f, i) ==
    LET known == f[i].st = "ok" /\ f[i].has
        type == IF f[i].kind = "dir" THEN "folder" ELSE IF f[i].kind = "doc" THEN "file" ELSE "image"
    IN  TreeItem(IF type = "file" THEN StripMdx(f[i].name) ELSE f[i].name, type, i, PathOf(f, i),
                 known /\ type # "image", IF known /\ type # "image" THEN f[i].pos ELSE 0, <<>>)

\* The comparator of the earlier tree view: positioned first, ascending; then
\* folders before files; then by label.
VirtualLess(a, b) ==
    IF a.has /\ b.has THEN a.position < b.position
    ELSE IF a.has /\ ~b.has THEN TRUE
    ELSE IF ~a.has /\ b.has THEN FALSE
    ELSE IF a.type = "folder" /\ b.type # "folder" THEN TRUE
    ELSE IF a.type # "folder" /\ b.type = "folder" THEN FALSE
    ELSE LabelLess(a, b)

\* getDocItemsFromPath of the earlier tree view (virtual "Images (n)" folder).
getDocItemsFromPathVirtual(f, folder) ==
    LET entries == readdirSync(f, folder)
        scanned == [k \in 1..Len(entries) |-> ScanVirtualEntry(f, entries[k])]
        result == SelectSeq(scanned, IsTreeEntry)
        imageFiles == SelectSeq(scanned, IsImageItem)
        sorted == StableSort(imageFiles, [j \in 1..Len(imageFiles) |-> [i \in 1..Len(imageFiles) |-> LabelLess(imageFiles[j], imageFiles[i])]])
        group == TreeItem(GroupLabel("Images", Len(imageFiles)), "folder", NoItem, PathOf(f, folder),
                          FALSE, 0, sorted)
        all == IF Len(imageFiles) > 0 THEN Append(result, group) ELSE result
    IN  IF ~IsDirectory(f, folder)
        THEN <<>>
        ELSE StableSort(all, [j \in 1..Len(all) |-> [i \in 1..Len(all) |-> VirtualLess(all[j], all[i])]])

\* getChildren(folder) of the current tree view.
GetChildren ==
    \E folder \in {Root}, io \in BOOLEAN :
        LET r == getDocItemsFromPath(fs, imagesFolderMap, folder, io)
        IN  /\ children' = r.items
            /\ fs' = r.fs
            /\ imagesFolderMap' = r.map
            /\ last' = [NoLast EXCEPT !.op = "build", !.tgt = folder, !.dir = folder, !.io = io]
            /\ UNCHANGED <<locked, panel, roots, content>>

\* getChildren(folder) of the earlier tree view.
GetChildrenVirtual ==
    \E folder \in {Root} :
        /\ children' = getDocItemsFromPathVirtual(fs, folder)
        /\ last' = [NoLast EXCEPT !.op = "buildVirtual", !.tgt = folder, !.dir = folder]
        /\ UNCHANGED <<fs, imagesFolderMap, locked, panel, roots, content>>

TreePositions == (0..MaxTreePos) \cup {ImageGroupPosition}

TreeDocMetas ==
    {[st |-> "ok", has |-> FALSE, pos |-> 0]}
    \cup {[st |-> "ok", has |-> TRUE, pos |-> p] : p \in TreePositions}

\* The fourth document: absent, or unpositioned.
LastDocs == {Free, Doc("d.md", Root, "ok", FALSE, 0)}

SubFolders ==
    {Free, Dir("guide", Root, "absent", FALSE, 0), Dir("guide", Root, "ok", TRUE, 3),
     Dir("images", Root, "absent", FALSE, 0)}

\* docs/{b.md, a.md, c.md, [d.md], [guide/ or images/], [y.png], [x.png]}
InitTree ==
    /\ \E m1 \in TreeDocMetas, m2 \in TreeDocMetas, m3 \in TreeDocMetas,
          d4 \in LastDocs, d5 \in SubFolders, nimg \in {0, 2} :
         fs = [i \in Ids |->
                 IF i = 1 THEN Doc("b.md", Root, m1.st, m1.has, m1.pos)
                 ELSE IF i = 2 THEN Doc("a.md", Root, m2.st, m2.has, m2.pos)
                 ELSE IF i = 3 THEN Doc("c.md", Root, m3.st, m3.has, m3.pos)
                 ELSE IF i = 4 THEN d4
                 ELSE IF i = 5 THEN d5
                 ELSE IF i = 6 /\ nimg >= 1 THEN Img("y.png", Root)
                 ELSE IF i = 7 /\ nimg >= 2 THEN Img("x.png", Root)
                 ELSE Free]
    /\ last = NoLast
    /\ children = <<>>
    /\ imagesFolderMap = {}
    /\ locked = {}
    /\ panel = NoPanel
    /\ roots = NoRoots
    /\ content = NoContent

NextTree == GetChildren \/ GetChildrenVirtual

SpecTree == InitTree /\ [][NextTree]_vars

(***************************************************************************)
(* Commands: delete document, delete category, new document               *)
(***************************************************************************)

\* Text typed by the user, one character per element.
Lower ==
    [c \in {"A", "B", "C", "M"} |->
        IF c = "A" THEN "a" ELSE IF c = "B" THEN "b" ELSE IF c = "C" THEN "c" ELSE "m"]

LowerLetters == {"a", "b", "c", "d", "e", "g", "i", "m", "p", "t", "u", "y"}

UpperLetters == DOMAIN Lower

Digits == {"0", "1", "2"}

RECURSIVE Join(_)
Join(cs) == IF cs = <<>> THEN "" ELSE cs[1] \o Join(Tail(cs))

toLowerCase(cs) == [k \in 1..Len(cs) |-> IF cs[k] \in UpperLetters THEN Lower[cs[k]] ELSE cs[k]]

RECURSIVE CollapseHyphens(_)
CollapseHyphens(cs) ==
    IF Len(cs) < 2 THEN cs
    ELSE IF cs[1] = "-" /\ cs[2] = "-" THEN CollapseHyphens(Tail(cs))
    ELSE <<cs[1]>> \o CollapseHyphens(Tail(cs))

RECURSIVE trim(_)
trim(cs) ==
    IF cs # <<>> /\ cs[1] = " " THEN trim(Tail(cs))
    ELSE IF cs # <<>> /\ cs[Len(cs)] = " " THEN trim(SubSeq(cs, 1, Len(cs) - 1))
    ELSE cs

\* title.toLowerCase().replace(/[^a-z0-9\s-]/g, '').replace(/\s+/g, '-')
\*      .replace(/-+/g, '-').trim()
generateFilename(title) ==
    LET low == toLowerCase(title)
        kept == SelectSeq(low, LAMBDA c : c \in LowerLetters \cup Digits \cup {" ", "-"})
        dashed == [k \in 1..Len(kept) |-> IF kept[k] = " " THEN "-" ELSE kept[k]]
    IN  trim(CollapseHyphens(dashed))

\* fs.unlinkSync / vscode.workspace.fs.delete of a file; bad is the entry
\* whose removal the file system refuses.
unlinkSync(f, id, bad) ==
    IF id = bad THEN [ok |-> FALSE, fs |-> f] ELSE [ok |-> TRUE, fs |-> [f EXCEPT ![id] = Free]]

\* fs.rmdirSync: fails on a directory that still has entries.
rmdirSync(f, id, bad) ==
    IF id = bad \/ EntriesOf(f, id) # {}
    THEN [ok |-> FALSE, fs |-> f]
    ELSE [ok |-> TRUE, fs |-> [f EXCEPT ![id] = Free]]

RECURSIVE deleteFolderRecursive(_, _, _)
RECURSIVE deleteEntries(_, _, _, _)
\* The forEach of deleteFolderRecursive: an exception ends the whole deletion.
deleteEntries(f, entries, k, bad) ==
    IF k > Len(entries) THEN [ok |-> TRUE, fs |-> f]
    ELSE LET r == IF f[entries[k]].kind = "dir"
                  THEN deleteFolderRecursive(f, entries[k], bad)
                  ELSE unlinkSync(f, entries[k], bad)
         IN  IF r.ok THEN deleteEntries(r.fs, entries, k + 1, bad) ELSE r

deleteFolderRecursive(f, folderPath, bad) ==
    IF ~Exists(f, folderPath) THEN [ok |-> TRUE, fs |-> f]
    ELSE LET r == deleteEntries(f, readdirSync(f, folderPath), 1, bad)
         IN  IF r.ok THEN rmdirSync(r.fs, folderPath, bad) ELSE r

RECURSIVE Subtree(_, _)
Subtree(f, d) == {d} \cup UNION {Subtree(f, i) : i \in EntriesOf(f, d)}

\* A test that never finds a document in the folder.
hasDocumentsNever(f, d) == FALSE

\* files.some(file => file.endsWith('.md') || file.endsWith('.mdx'))
hasDocuments(f, d) == \E i \in EntriesOf(f, d) : f[i].kind = "doc"

\* The outcome of a command as the user sees it.
Outcome(op, item, dir, failed, error, info, refreshed) ==
    [NoLast EXCEPT !.op = op, !.src = item, !.tgt = dir, !.dir = dir, !.failed = failed,
                   !.error = error, !.info = info, !.refreshed = refreshed]

\* deleteDocCommand: one modal confirmation, then the delete.
DeleteDoc ==
    \E item \in {i \in Ids : fs[i].kind = "doc"}, confirm \in BOOLEAN, io \in BOOLEAN :
        LET r == unlinkSync(fs, item, IF io THEN NoItem ELSE item)
        IN  /\ fs' = IF confirm THEN r.fs ELSE fs
            /\ last' = [Outcome("deleteDoc", item, dirname(fs, item), confirm /\ ~r.ok,
                                confirm /\ ~r.ok, confirm /\ r.ok, confirm /\ r.ok)
                         EXCEPT !.answers = IF confirm THEN 1 ELSE 0]
            /\ UNCHANGED <<children, imagesFolderMap, locked, panel, roots, content>>

\* deleteCategoryCommand and CategoryHandler.deleteCategory.  answers is the
\* number of dialogs the user confirms before dismissing one.
DeleteCategory ==
    \E item \in {i \in Ids : fs[i].kind = "dir"}, answers \in 0..3 :
      \E bad \in {NoItem} \cup Subtree(fs, item) :
        LET asked == IF hasDocuments(fs, item) THEN 3 ELSE 2
            go == answers >= asked
            r == deleteFolderRecursive(fs, item, bad)
        IN  /\ go \/ bad = NoItem
            /\ answers <= asked
            /\ fs' = IF go THEN r.fs ELSE fs
            /\ last' = [Outcome("deleteCategory", item, dirname(fs, item), go /\ ~r.ok,
                                go /\ ~r.ok, go /\ r.ok, answers >= 1)
                         EXCEPT !.answers = answers]
            /\ UNCHANGED <<children, imagesFolderMap, locked, panel, roots, content>>

\* The directory a path names, if any.
ResolveDir(f, path) == {i \in Ids : f[i].kind = "dir" /\ PathOf(f, i) = path}

\* Titles the user types for a new document: none, "C b".
Titles == {<<>>, <<"C", " ", "b">>}

Max(S) == IF S = {} THEN 0 ELSE CHOOSE x \in S : \A y \in S : y <= x

\* NewFileHandler.getNextPosition: 1 + the largest sidebar_position of the
\* folder's documents.
getNextDocPosition(f, folderPath) ==
    Max({f[i].pos : i \in {j \in EntriesOf(f, folderPath) :
                               f[j].kind = "doc" /\ f[j].st = "ok" /\ f[j].has}}) + 1

\* fs.writeFileSync of a document with frontmatter {id, title, sidebar_position}.
writeDocument(f, folder, name, position, io) ==
    LET hit == Lookup(f, folder, name)
    IN  IF ~io \/ ~IsDirectory(f, folder) THEN [ok |-> FALSE, fs |-> f]
        ELSE IF hit # {}
        THEN LET e == CHOOSE i \in hit : TRUE
             IN  IF f[e].kind = "dir" THEN [ok |-> FALSE, fs |-> f]
                 ELSE [ok |-> TRUE, fs |-> [f EXCEPT ![e] = Doc(name, folder, "ok", TRUE, position)]]
        ELSE IF FreeIds(f) = {} THEN [ok |-> FALSE, fs |-> f]
        ELSE LET i == CHOOSE i \in FreeIds(f) : \A j \in FreeIds(f) : i <= j
             IN  [ok |-> TRUE, fs |-> [f EXCEPT ![i] = Doc(name, folder, "ok", TRUE, position)]]

\* NewFileHandler.createNewDocument for the docs content type.
CreateNewDoc ==
    \E folderPath \in {Root} \cup ResolveDir(fs, panel.path), title \in Titles,
       overwrite \in BOOLEAN, io \in BOOLEAN :
        LET name == Join(generateFilename(title)) \o ".md"
            position == getNextDocPosition(fs, folderPath)
            exists == Lookup(fs, folderPath, name) # {}
            go == title # <<>> /\ (exists => overwrite)
            r == writeDocument(fs, folderPath, name, position, io)
        IN  /\ position <= MaxPosition
            /\ Cardinality(Sources(fs)) < MaxEntries
            /\ fs' = IF go THEN r.fs ELSE fs
            /\ last' = [Outcome("createDoc", NoItem, folderPath, go /\ ~r.ok, go /\ ~r.ok,
                                go /\ r.ok, go /\ r.ok)
                         EXCEPT !.input = title]
            /\ UNCHANGED <<children, imagesFolderMap, locked, panel, roots, content>>

(***************************************************************************)
(* Category creation                                                       *)
(***************************************************************************)
\* Folder names the user types: nothing, "my-cat", "guide", "My Cat!".
CategoryNames ==
    {<<>>, <<"m", "y", "-", "c", "a", "t">>, <<"g", "u", "i", "d", "e">>,
     <<"M", "y", " ", "C", "a", "t", "!">>}

\* A name box that accepts every value.
validateInputAcceptsAll(value) == ""

\* validateInput of the name box: "" stands for null (the value is accepted).
validateInput(value) ==
    IF trim(value) = <<>> THEN "required"
    ELSE IF \E k \in 1..Len(value) : value[k] \notin LowerLetters \cup UpperLetters \cup Digits \cup {"-", "_"}
    THEN "charset"
    ELSE ""

\* showInputBox: a value that fails validation cannot be accepted, the box
\* can only be dismissed (undefined, here the empty text).
showInputBox(typed) == IF validateInput(typed) = "" THEN typed ELSE <<>>

\* A next position that also looks at the documents of the folder.
getNextPositionCountingDocs(f, docsPath) ==
    Max({f[i].pos : i \in {j \in EntriesOf(f, docsPath) : f[j].st = "ok" /\ f[j].has}}) + 1

\* CategoryHandler.getNextPosition: 1 + the largest position in the sidecars
\* of the sub-folders of docsPath.
getNextPosition(f, docsPath) ==
    Max({f[i].pos : i \in {j \in EntriesOf(f, docsPath) :
                               f[j].kind = "dir" /\ f[j].st = "ok" /\ f[j].has}}) + 1

\* A save that swallows the write error and reports success.
saveCategoryConfigSwallowsError(f, folder, data, io) ==
    IF ~io \/ folder = {} THEN [ok |-> TRUE, fs |-> f]
    ELSE LET i == CHOOSE i \in folder : TRUE
         IN  [ok |-> TRUE,
              fs |-> [f EXCEPT ![i].st = "ok", ![i].has = TRUE, ![i].pos = data.position,
                               ![i].cfg = [label |-> data.label, link |-> "generated-index",
                                           description |-> data.description, extra |-> FALSE]]]

\* A save that merges the data into the sidecar it finds.
saveCategoryConfigMerges(f, folder, data, io) ==
    IF ~io \/ folder = {} THEN [ok |-> FALSE, fs |-> f]
    ELSE LET i == CHOOSE i \in folder : TRUE
             link == IF f[i].cfg.link = "" THEN "generated-index" ELSE f[i].cfg.link
         IN  [ok |-> TRUE,
              fs |-> [f EXCEPT ![i].st = "ok", ![i].has = TRUE, ![i].pos = data.position,
                               ![i].cfg = [label |-> data.label, link |-> link,
                                           description |-> data.description,
                                           extra |-> f[i].cfg.extra]]]

\* saveCategoryConfig: the sidecar becomes {label, position, link}.
saveCategoryConfig(f, folder, data, io) ==
    IF ~io \/ folder = {} THEN [ok |-> FALSE, fs |-> f]
    ELSE LET i == CHOOSE i \in folder : TRUE
         IN  [ok |-> TRUE,
              fs |-> [f EXCEPT ![i].st = "ok", ![i].has = TRUE, ![i].pos = data.position,
                               ![i].cfg = [label |-> data.label, link |-> "generated-index",
                                           description |-> data.description, extra |-> FALSE]]]

\* createNewCategory up to the opening of the confirmation form.
CreateCategory ==
    \E parent \in {Root}, typed \in CategoryNames, io \in BOOLEAN :
        LET categoryName == showInputBox(typed)
            name == Join(categoryName)
            exists == Lookup(fs, parent, name) # {}
            made == mkdirSync(fs, parent, name, io)
            ok == categoryName # <<>> /\ ~exists /\ made # fs
            position == getNextPosition(made, parent)
        IN  /\ panel.state \notin {"AwaitingUserConfirmation", "Editing"}
            /\ position <= MaxPosition
            /\ Cardinality(Sources(fs)) < MaxEntries
            /\ fs' = IF ok THEN made ELSE fs
            /\ panel' = IF ok
                         THEN [state |-> "AwaitingUserConfirmation",
                               path |-> Append(PathOf(fs, parent), name),
                               parent |-> parent, position |-> position, data |-> NoData]
                         ELSE panel
            /\ last' = [Outcome("createCategory", NoItem, parent,
                                categoryName # <<>> /\ ~exists /\ ~ok,
                                categoryName # <<>> /\ ~ok, FALSE, FALSE)
                         EXCEPT !.input = typed,
                                !.steps = IF categoryName = <<>> THEN <<>>
                                          ELSE IF ~ok THEN <<"Named">>
                                          ELSE <<"Named", "FolderCreated", "AwaitingUserConfirmation">>]
            /\ UNCHANGED <<children, imagesFolderMap, locked, roots, content>>

\* The save message of the confirmation form.
PanelSave ==
    \E data \in FormData, io \in BOOLEAN :
        LET r == saveCategoryConfig(fs, ResolveDir(fs, panel.path), data, io)
        IN  /\ panel.state = "AwaitingUserConfirmation"
            /\ fs' = r.fs
            /\ panel' = [panel EXCEPT !.data = data,
                                      !.state = IF r.ok THEN "Committed" ELSE @]
            /\ last' = [Outcome("saveCategory", NoItem, panel.parent, ~r.ok, ~r.ok, r.ok, r.ok)
                         EXCEPT !.steps = IF r.ok THEN <<"Committed">> ELSE <<>>]
            /\ UNCHANGED <<children, imagesFolderMap, locked, roots, content>>

\* A test that never finds the folder empty.
isEmptyFolderNever(f, dir) == FALSE

\* fs.readdirSync(newCategoryPath).length === 0; a missing folder throws.
isEmptyFolder(f, dir) ==
    /\ dir # {}
    /\ \A i \in dir : EntriesOf(f, i) = {} /\ f[i].st = "absent"

\* The cancel message of the confirmation form: the folder is removed when
\* readdirSync finds it empty; any error is ignored.
PanelCancel ==
    \E io \in BOOLEAN :
        LET dir == ResolveDir(fs, panel.path)
            i == CHOOSE i \in dir : TRUE
            empty == isEmptyFolder(fs, dir)
        IN  /\ panel.state = "AwaitingUserConfirmation"
            /\ fs' = IF empty THEN rmdirSync(fs, i, IF io THEN NoItem ELSE i).fs ELSE fs
            /\ panel' = [panel EXCEPT !.state = "Cancelled"]
            /\ last' = [Outcome("cancelCategory", NoItem, panel.parent, FALSE, FALSE, FALSE, FALSE)
                         EXCEPT !.io = io, !.steps = <<"Cancelled">>]
            /\ UNCHANGED <<children, imagesFolderMap, locked, roots, content>>

(***************************************************************************)
(* Category settings                                                       *)
(***************************************************************************)
\* A hand-written sidecar: a link to a document and keys the form does not know.
LegacyConfig == [label |-> "Old", link |-> "doc", description |-> "old", extra |-> TRUE]

\* editCategorySettings up to the opening of the settings form.
EditCategory ==
    \E item \in {i \in Ids : fs[i].kind = "dir"} :
        /\ panel.state \notin {"AwaitingUserConfirmation", "Editing"}
        /\ panel' = [state |-> "Editing", path |-> PathOf(fs, item),
                     parent |-> fs[item].parent, position |-> 0, data |-> NoData]
        /\ last' = Outcome("editCategory", item, fs[item].parent, FALSE, FALSE, FALSE, FALSE)
        /\ UNCHANGED <<fs, children, imagesFolderMap, locked, roots, content>>

\* The save message of the settings form.
EditSave ==
    \E data \in FormData, io \in BOOLEAN :
        LET r == saveCategoryConfig(fs, ResolveDir(fs, panel.path), data, io)
        IN  /\ panel.state = "Editing"
            /\ fs' = r.fs
            /\ panel' = [panel EXCEPT !.data = data,
                                      !.state = IF r.ok THEN "Saved" ELSE @]
            /\ last' = Outcome("saveEdit", NoItem, panel.parent, ~r.ok, ~r.ok, r.ok, r.ok)
            /\ UNCHANGED <<children, imagesFolderMap, locked, roots, content>>

\* The cancel message of the settings form.
EditCancel ==
    /\ panel.state = "Editing"
    /\ panel' = [panel EXCEPT !.state = "Closed"]
    /\ last' = Outcome("cancelEdit", NoItem, panel.parent, FALSE, FALSE, FALSE, FALSE)
    /\ UNCHANGED <<fs, children, imagesFolderMap, locked, roots, content>>

\* docs/{guide/, api/}: guide/ has a hand-written or a malformed sidecar,
\* api/ has none.
InitSidecar ==
    /\ \E m \in DirMetas \ {[st |-> "absent", has |-> FALSE, pos |-> 0]} :
         fs = [i \in Ids |->
                 IF i = 1
                 THEN [Dir("guide", Root, m.st, m.has, m.pos)
                          EXCEPT !.cfg = IF m.st = "ok" THEN LegacyConfig ELSE NoConfig]
                 ELSE IF i = 2 THEN Dir("api", Root, "absent", FALSE, 0)
                 ELSE Free]
    /\ last = NoLast
    /\ children = <<>>
    /\ imagesFolderMap = {}
    /\ locked = {}
    /\ panel = NoPanel
    /\ roots = NoRoots
    /\ content = NoContent

NextSidecar == EditCategory \/ EditSave \/ EditCancel

SpecSidecar == InitSidecar /\ [][NextSidecar]_vars

\* docs/{a.md, guide/, api/}, the sidecar of api/ malformed.
InitCategory ==
    /\ \E m1 \in {[st |-> "ok", has |-> FALSE, pos |-> 0], [st |-> "ok", has |-> TRUE, pos |-> MaxInitPos]},
          m2 \in DirMetas :
         fs = [i \in Ids |->
                 IF i = 1 THEN Doc("a.md", Root, m1.st, m1.has, m1.pos)
                 ELSE IF i = 2 THEN Dir("guide", Root, m2.st, m2.has, m2.pos)
                 ELSE IF i = 3 THEN Dir("api", Root, "bad", FALSE, 0)
                 ELSE Free]
    /\ last = NoLast
    /\ children = <<>>
    /\ imagesFolderMap = {}
    /\ locked = {}
    /\ panel = NoPanel
    /\ roots = NoRoots
    /\ content = NoContent

NextCategory == CreateCategory \/ PanelSave \/ PanelCancel \/ CreateNewDoc

SpecCategory == InitCategory /\ [][NextCategory]_vars

\* docs/{a.md, guide/{[b.md], sub/{[c.md]}}, [images/]}
InitDelete ==
    /\ \E m2 \in DirMetas, d3 \in {Free, Doc("b.md", 2, "ok", FALSE, 0)},
          d5 \in {Free, Doc("c.md", 4, "ok", TRUE, 1)},
          d6 \in {Free, Dir("images", Root, "absent", FALSE, 0)} :
         fs = [i \in Ids |->
                 IF i = 1 THEN Doc("a.md", Root, "ok", FALSE, 0)
                 ELSE IF i = 2 THEN Dir("guide", Root, m2.st, m2.has, m2.pos)
                 ELSE IF i = 3 THEN d3
                 ELSE IF i = 4 THEN Dir("sub", 2, "absent", FALSE, 0)
                 ELSE IF i = 5 THEN d5
                 ELSE IF i = 6 THEN d6
                 ELSE Free]
    /\ last = NoLast
    /\ children = <<>>
    /\ imagesFolderMap = {}
    /\ locked = {}
    /\ panel = NoPanel
    /\ roots = NoRoots
    /\ content = NoContent

NextDelete == DeleteDoc \/ DeleteCategory

SpecDelete == InitDelete /\ [][NextDelete]_vars

\* The metadata file that is locked: none, or one of the three entries.
LockedSets == {{}} \cup {{i} : i \in 1..3}

\* docs/{b.md, a.md, guide/}, every metadata file parseable, one possibly locked.
InitFaults ==
    /\ \E m1 \in DocMetas \ {[st |-> "bad", has |-> FALSE, pos |-> 0]},
          m2 \in DocMetas \ {[st |-> "bad", has |-> FALSE, pos |-> 0]},
          m3 \in DirMetas \ {[st |-> "bad", has |-> FALSE, pos |-> 0]} :
         fs = [i \in Ids |->
                 IF i = 1 THEN Doc("b.md", Root, m1.st, m1.has, m1.pos)
                 ELSE IF i = 2 THEN Doc("a.md", Root, m2.st, m2.has, m2.pos)
                 ELSE IF i = 3 THEN Dir("guide", Root, m3.st, m3.has, m3.pos)
                 ELSE Free]
    /\ last = NoLast
    /\ children = <<>>
    /\ imagesFolderMap = {}
    /\ locked \in LockedSets
    /\ panel = NoPanel
    /\ roots = NoRoots
    /\ content = NoContent

SpecFaults == InitFaults /\ [][Next]_vars

(***************************************************************************)
(* Documents roots                                                         *)
(***************************************************************************)
\* path.join(workspaceRoot, name) is written name; the project root is ".".
WorkspaceRoot == "."

\* Folder names of the project root, in directory order.
WorkspaceOrder == <<"api", "blog", "docs", "notes">>

commonDocsFolders == {"docs", "api", "guides", "tutorials", "versioned_docs"}

commonBlogFolders == {"blog"}

\* commonFolders of the first tree view.
commonFolders == {"docs", "blog", "api", "guides", "tutorials", "versioned_docs"}

\* commonDocsFolders of the earlier tree view.
commonDocsFoldersEarlier == {"docs", "documentation", "doc", "documents"}

\* The plugin paths that exist on disk, in the order of the plugin entries.
ExistingPaths(ws, paths) == SelectSeq(paths, LAMBDA n : n \in ws.dirs)

\* The loop of findDocumentFolders over the entries of the project root.
ScanDocs(ws, common, blogs) ==
    SelectSeq(WorkspaceOrder,
              LAMBDA n : /\ n \in ws.dirs
                         /\ \/ n \in common
                            \/ /\ n \notin common \cup blogs
                               /\ n \in ws.md
                               /\ n \notin ws.blogLike)

ScanBlogs(ws, common, blogs) ==
    SelectSeq(WorkspaceOrder,
              LAMBDA n : /\ n \in ws.dirs
                         /\ \/ n \in blogs
                            \/ /\ n \notin common \cup blogs
                               /\ n \in ws.md
                               /\ n \in ws.blogLike)

\* "If still no paths found, use workspace root".
OrWorkspaceRoot(paths) == IF Len(paths) = 0 THEN <<WorkspaceRoot>> ELSE paths

\* findDocumentFolders of the current tree view, entered with the paths
\* collected so far.
findDocumentFolders(ws, docs, blogs) ==
    [docsPaths |-> OrWorkspaceRoot(docs \o ScanDocs(ws, commonDocsFolders, commonBlogFolders)),
     blogPaths |-> blogs \o ScanBlogs(ws, commonDocsFolders, commonBlogFolders)]

\* parseDocusaurusConfig of the current tree view.
parseDocusaurusConfig(ws) ==
    LET docs == ExistingPaths(ws, ws.docsPlugins)
                   \o (IF "docs" \in ws.dirs THEN <<"docs">> ELSE <<>>)
        blogs == ExistingPaths(ws, ws.blogPlugins)
                   \o (IF "blog" \in ws.dirs THEN <<"blog">> ELSE <<>>)
    IN  IF ws.config = "unreadable" THEN findDocumentFolders(ws, <<>>, <<>>)
        ELSE IF Len(docs) = 0 /\ Len(blogs) = 0 THEN findDocumentFolders(ws, docs, blogs)
        ELSE [docsPaths |-> docs, blogPaths |-> blogs]

\* loadDocusaurusConfig of the current tree view.
loadDocusaurusConfig(ws) ==
    IF ws.config # "none" THEN parseDocusaurusConfig(ws)
    ELSE findDocumentFolders(ws, <<>>, <<>>)

\* findDocumentFolders of the first tree view: it has no blog roots, and its
\* containsMarkdownFiles counts every folder that holds markdown files.
findDocumentFoldersTreeView(ws) ==
    OrWorkspaceRoot(SelectSeq(WorkspaceOrder,
                              LAMBDA n : n \in ws.dirs /\ (n \in commonFolders \/ n \in ws.md)))

\* loadDocusaurusConfig and parseDocusaurusConfig of the first tree view.
loadDocusaurusConfigTreeView(ws) ==
    LET found == ExistingPaths(ws, ws.docsPlugins)
        docs == IF Len(found) = 0 /\ "docs" \in ws.dirs THEN <<"docs">> ELSE found
    IN  IF ws.config = "ok" THEN docs ELSE findDocumentFoldersTreeView(ws)

\* loadDocusaurusConfig of the earlier tree view: every path: entry of the
\* configuration file, then the scan of the project root, then the fall-back.
loadDocusaurusConfigEarlier(ws) ==
    LET named == IF ws.config = "ok"
                 THEN ExistingPaths(ws, ws.docsPlugins \o ws.blogPlugins)
                 ELSE <<>>
        docs == SelectSeq(named, LAMBDA n : n # "blog")
        blogs == SelectSeq(named, LAMBDA n : n = "blog")
    IN  [docsPaths |-> OrWorkspaceRoot(docs \o ScanDocs(ws, commonDocsFoldersEarlier, commonBlogFolders)),
         blogPaths |-> blogs \o ScanBlogs(ws, commonDocsFoldersEarlier, commonBlogFolders)]

\* refresh() of the current tree view.
Refresh ==
    LET r == loadDocusaurusConfig(roots.ws)
    IN  /\ roots' = [roots EXCEPT !.docsPaths = r.docsPaths, !.blogPaths = r.blogPaths,
                                  !.by = "refresh"]
        /\ UNCHANGED <<fs, last, children, imagesFolderMap, locked, panel, content>>

\* refresh() of the first tree view.
RefreshTreeView ==
    /\ roots' = [roots EXCEPT !.docsPaths = loadDocusaurusConfigTreeView(roots.ws),
                              !.blogPaths = <<>>, !.by = "refreshTreeView"]
    /\ UNCHANGED <<fs, last, children, imagesFolderMap, locked, panel, content>>

\* refresh() of the earlier tree view.
RefreshEarlier ==
    LET r == loadDocusaurusConfigEarlier(roots.ws)
    IN  /\ roots' = [roots EXCEPT !.docsPaths = r.docsPaths, !.blogPaths = r.blogPaths,
                                  !.by = "refreshEarlier"]
        /\ UNCHANGED <<fs, last, children, imagesFolderMap, locked, panel, content>>

\* Project folders: with or without a configuration file, whose plugin
\* entries may name api/ and blog/; any of api/, blog/, docs/, notes/.
Workspaces ==
    {w \in [config : {"none", "ok", "unreadable"},
            docsPlugins : {<<>>, <<"api">>},
            blogPlugins : {<<>>, <<"blog">>},
            dirs : SUBSET {"api", "blog", "docs", "notes"},
            md : SUBSET {"notes"},
            blogLike : SUBSET {"notes"}] :
        /\ w.config # "ok" => (w.docsPlugins = <<>> /\ w.blogPlugins = <<>>)
        /\ w.md \subseteq w.dirs
        /\ w.blogLike \subseteq w.md}

InitRoots ==
    /\ fs = [i \in Ids |-> Free]
    /\ last = NoLast
    /\ children = <<>>
    /\ imagesFolderMap = {}
    /\ locked = {}
    /\ panel = NoPanel
    /\ \E w \in Workspaces : roots = [NoRoots EXCEPT !.ws = w]
    /\ content = NoContent

NextRoots == Refresh \/ RefreshTreeView \/ RefreshEarlier

SpecRoots == InitRoots /\ [][NextRoots]_vars

(***************************************************************************)
(* Properties of the reorder transaction (checked under Spec)              *)
(***************************************************************************)
\* The sibling set of a folder: its documents and sub-folders.
Siblings(f, d) == {i \in EntriesOf(f, d) : f[i].kind \in {"doc", "dir"}}

\* Reading a sibling's position back yields a value.
HasPosition(f, i) == f[i].st = "ok" /\ f[i].has

Contiguous(f, d) ==
    /\ \A i \in Siblings(f, d) : HasPosition(f, i)
    /\ {f[i].pos : i \in Siblings(f, d)} = 1..Cardinality(Siblings(f, d))

\* The order in which the tree shows the documents and sub-folders of d.
DisplayOrder(f, d) ==
    LET items == getDocItemsFromPath(f, {}, d, FALSE).items
    IN  SelectSeq([k \in 1..Len(items) |-> items[k].id], LAMBDA i : i # NoItem)

IndexIn(seq, x) == CHOOSE k \in 1..Len(seq) : seq[k] = x

\* C1: after any reorder transaction on a folder with N siblings, the
\* positions read back from its documents and sub-folders are exactly 1..N.
C1_RenumberContiguous == (last.renumbered /\ last.fw = NoItem) => Contiguous(fs, last.dir)

\* C2: a same-folder reorder of S onto document T (S # T) puts S immediately
\* before T, keeps the order of the other siblings, and numbers the new order
\* 1..N.
C2_ReorderBeforeTarget ==
    [][(/\ last'.op = "reorder"
        /\ last'.src # last'.tgt
        /\ dirname(fs, last'.src) = dirname(fs, last'.tgt))
       => LET old == DisplayOrder(fs, dirname(fs, last'.src))
              rest == RemoveAt(old, IndexIn(old, last'.src))
              new == InsertAt(rest, IndexIn(rest, last'.tgt), last'.src)
          IN  \A k \in 1..Len(new) : HasPosition(fs', new[k]) /\ fs'[new[k]].pos = k]_vars

\* C3: a reorder gesture whose source and target lie in different folders
\* moves no file and writes no frontmatter or sidecar.
C3_CrossDirectoryNoOp ==
    [][(last'.op = "reorder" /\ dirname(fs, last'.src) # dirname(fs, last'.tgt))
       => fs' = fs]_vars

C3_Witness ==
    /\ last.op = "reorder"
    /\ dirname(fs, last.src) # dirname(fs, last.tgt)
    /\ ~Contiguous(fs, dirname(fs, last.src))
    /\ ~Contiguous(fs, dirname(fs, last.tgt))

\* The key the transaction sorts a sibling by: the position it carries, and
\* 999 when it carries none or 0.
Carried(f, i) == OrDefault(HasPosition(f, i), f[i].pos)

\* The siblings the transaction lists, and those whose metadata it can rewrite.
Listed(f, d) == {i \in Siblings(f, d) : f[i].kind = "dir" \/ f[i].st = "ok"}

Rewritable(f, d) == {i \in Listed(f, d) : f[i].st # "bad"}

C5_FailedMoveChangesNothing ==
    [][(last'.op = "move" /\ ~renameSync(fs, last'.src, last'.tgt, last'.io).ok)
       => fs' = fs /\ ~last'.renumbered]_vars

C5_Witness ==
    /\ last.op = "move" /\ ~last.moved
    /\ Siblings(fs, last.tgt) # {}
    /\ \A i \in Siblings(fs, last.tgt) : fs[i].st = "ok"
    /\ ~Contiguous(fs, last.tgt)

\* The target folder already holds another entry with the source's name.
Collides(f, src, d) == \E e \in Lookup(f, d, f[src].name) : e # src

\* C6: a name collision in a move-into-folder gesture is reported as an error
\* and no existing entry is overwritten or lost.
C6_CollisionSurfaced ==
    [][(last'.op = "move" /\ Collides(fs, last'.src, last'.tgt))
       => /\ ~last'.moved
          /\ \A i \in Ids : Exists(fs, i) => Exists(fs', i)]_vars

(***************************************************************************)
(* Properties of the tree model builder (checked under SpecTree)           *)
(***************************************************************************)
\* The children built from real directory entries, and the image groups.
RealNodes == {k \in 1..Len(children) : children[k].id # NoItem}

GroupNodes(items) == {k \in 1..Len(items) : items[k].id = NoItem}

ImageFiles(f, d) == {i \in EntriesOf(f, d) : f[i].kind = "img"}

IsBuild(l) == l.op \in {"build", "buildVirtual"}

\* C7: in the child list of a folder every document or sub-folder with an
\* explicit position precedes every one without, and those with a position
\* appear in ascending order of it, for every integer position.
C7_PositionedFirstAscending ==
    \A j \in RealNodes, k \in RealNodes :
        (j < k /\ children[k].has)
        => children[j].has /\ children[j].position <= children[k].position

\* C8: a build yields exactly one image group when the folder holds an image
\* and none otherwise, no image as a child of its own, a group whose child
\* count and label count equal the number of images; a rebuild yields as many
\* children as the build before it.
C8_OneImageGroup ==
    [][IsBuild(last')
       => LET imgs == ImageFiles(fs, last'.dir)
              groups == GroupNodes(children')
          IN  /\ Cardinality(groups) = IF imgs = {} THEN 0 ELSE 1
              /\ \A k \in 1..Len(children') : children'[k].type # "image"
              /\ \A k \in groups :
                    /\ Len(children'[k].children) = Cardinality(imgs)
                    /\ children'[k].label \in
                          {GroupLabel(nm, Cardinality(imgs)) : nm \in {"images", "img", "assets", "static", "Images"}}
              /\ (last.op = last'.op => Len(children') = Len(children))]_vars

\* C9: every image of an image group is a file directly inside the group's
\* path.
C9_GroupPathHoldsImages ==
    \A k \in GroupNodes(children) :
        \A c \in 1..Len(children[k].children) :
            LET p == children[k].children[c].path
            IN  SubSeq(p, 1, Len(p) - 1) = children[k].path

\* C10: a build creates, moves and deletes nothing on disk, and a build that
\* follows a build of the same folder returns the same child list.
C10_BuildReadOnlyIdempotent ==
    [][IsBuild(last')
       => /\ fs' = fs
          /\ (last.op = last'.op => children' = children)]_vars

(***************************************************************************)
(* Properties of the commands                                              *)
(***************************************************************************)
\* C11: every command in which a hard mutation fails (a move, a position
\* write, the creation or the deletion of a document or a category) ends
\* with a refresh of the tree.
C11_FailureFollowedByRefresh == last.failed => last.refreshed

\* C12: when a position write fails during a renumbering, the user is shown
\* an error, and the gesture still ends with a refresh.
C12_WriteFailureSurfaced ==
    (last.renumbered /\ last.failed) => (last.error /\ last.refreshed)

\* The state of the _category_.json of folder i.
SidecarOf(f, i) == [st |-> f[i].st, has |-> f[i].has, pos |-> f[i].pos, cfg |-> f[i].cfg]

\* Folder i is the same folder before and after the step.
SameFolder(i) ==
    /\ fs[i].kind = "dir" /\ fs'[i].kind = "dir"
    /\ fs[i].name = fs'[i].name /\ fs[i].parent = fs'[i].parent

C13_FlowStep ==
    /\ panel'.state # panel.state =>
          \/ /\ panel.state \in {"Idle", "Committed", "Cancelled"}
             /\ panel'.state = "AwaitingUserConfirmation"
             /\ last'.steps = <<"Named", "FolderCreated", "AwaitingUserConfirmation">>
             /\ ResolveDir(fs, panel'.path) = {}
             /\ ResolveDir(fs', panel'.path) # {}
             /\ \A i \in ResolveDir(fs', panel'.path) : fs'[i].st = "absent"
          \/ /\ panel.state = "AwaitingUserConfirmation"
             /\ panel'.state \in {"Committed", "Cancelled"}
             /\ last'.steps = <<panel'.state>>
    /\ \A i \in Ids :
          (SameFolder(i) /\ SidecarOf(fs', i) # SidecarOf(fs, i)) =>
              /\ last'.op = "saveCategory"
              /\ panel.state = "AwaitingUserConfirmation"
              /\ i \in ResolveDir(fs, panel.path)
    /\ (last'.op = "saveCategory" /\ last'.failed) =>
          /\ panel'.state = "AwaitingUserConfirmation"
          /\ last'.error /\ ~last'.info
          /\ fs' = fs
    /\ (panel'.state = "Committed" /\ panel.state # "Committed") =>
          /\ last'.info /\ ~last'.error
          /\ \A i \in ResolveDir(fs', panel.path) : fs'[i].st = "ok"
          /\ ResolveDir(fs', panel.path) # {}

\* C13: category creation moves only through Named, FolderCreated,
\* AwaitingUserConfirmation and then Committed or Cancelled; a sidecar changes
\* only on the save message of the form; a failed sidecar write leaves the
\* flow at the form with an error message, no success message and no sidecar.
C13_CreationFlow == [][C13_FlowStep]_vars

\* A save whose sidecar write failed: the form is still open, an error shown.
C13_Witness ==
    /\ last.op = "saveCategory" /\ last.failed /\ last.error
    /\ panel.state = "AwaitingUserConfirmation"
    /\ \A i \in ResolveDir(fs, panel.path) : fs[i].st = "absent"
    /\ ResolveDir(fs, panel.path) # {}

\* A category name the name box must not accept: empty, or with a character
\* other than a letter, a digit, a hyphen or an underscore.
BadName(typed) ==
    \/ typed = <<>>
    \/ \E k \in 1..Len(typed) :
          typed[k] \notin LowerLetters \cup UpperLetters \cup Digits \cup {"-", "_"}

C14_RejectStep ==
    /\ (last'.op = "createCategory" /\ BadName(last'.input)) =>
          (fs' = fs /\ panel' = panel)
    /\ (last'.op = "createCategory" /\ ~BadName(last'.input)
            /\ Lookup(fs, last'.dir, Join(last'.input)) # {}) =>
          (fs' = fs /\ panel' = panel /\ last'.error)
    /\ (last'.op = "createDoc" /\ last'.input = <<>>) => fs' = fs

\* C14: a category name that is empty or holds a character other than
\* letters, digits, hyphen and underscore, a category name whose folder
\* already exists, and a new document without a title leave the disk as it is.
C14_InvalidInputRejected == [][C14_RejectStep]_vars

\* The name "My Cat!" has just been refused.
C14_Witness ==
    /\ last.op = "createCategory"
    /\ last.input = <<"M", "y", " ", "C", "a", "t", "!">>
    /\ last.steps = <<>>

C15_CancelStep ==
    (last'.op = "cancelCategory" /\ panel.state = "AwaitingUserConfirmation") =>
        LET dir == ResolveDir(fs, panel.path)
            populated == \E i \in dir : EntriesOf(fs, i) # {} \/ fs[i].st # "absent"
        IN  /\ populated => fs' = fs
            /\ (dir # {} /\ ~populated /\ last'.io) =>
                  /\ ResolveDir(fs', panel.path) = {}
                  /\ \A i \in Ids \ dir : fs'[i] = fs[i]
            /\ fs' # fs => (dir # {} /\ ~populated)

\* C15: cancelling the confirmation form removes the folder created by the
\* flow exactly when the folder is empty (and rmdir does not fail); a folder
\* that holds any entry at that time is left untouched, and so is everything
\* else on disk.
C15_CancelRemovesOnlyEmpty == [][C15_CancelStep]_vars

\* The form was cancelled after a document had been created in the new folder.
C15_Witness ==
    /\ last.op = "cancelCategory"
    /\ panel.state = "Cancelled"
    /\ \E i \in ResolveDir(fs, panel.path) : EntriesOf(fs, i) # {}

\* The sibling category folders of the new folder whose sidecar gives a position.
PositionedCategories(f, d) ==
    {i \in Ids : f[i].kind = "dir" /\ f[i].parent = d /\ f[i].st = "ok" /\ f[i].has}

C16_OfferStep ==
    (last'.op = "createCategory" /\ panel'.state = "AwaitingUserConfirmation"
        /\ panel.state # "AwaitingUserConfirmation") =>
        LET S == {fs[i].pos : i \in PositionedCategories(fs, last'.dir)}
        IN  /\ S = {} => panel'.position = 1
            /\ S # {} => /\ panel'.position - 1 \in S
                          /\ \A p \in S : p <= panel'.position - 1

\* C16: the position offered for a new category is 1 + the largest position
\* in the sidecars of its sibling folders, and 1 when no sibling folder has
\* one; documents and folders without a readable sidecar do not count.
C16_NextPosition == [][C16_OfferStep]_vars

\* A position was offered below the position of a sibling document, beside a
\* folder whose sidecar is malformed and one whose sidecar has a position.
C16_Witness ==
    /\ last.op = "createCategory" /\ panel.state = "AwaitingUserConfirmation"
    /\ \E i \in Ids : fs[i].kind = "doc" /\ fs[i].parent = Root /\ fs[i].has
                        /\ fs[i].pos >= panel.position
    /\ \E i \in Ids : fs[i].kind = "dir" /\ fs[i].parent = Root /\ fs[i].st = "bad"
    /\ \E i \in Ids : fs[i].kind = "dir" /\ fs[i].parent = Root /\ fs[i].has
                        /\ fs[i].pos = panel.position - 1

\* The sidecar {label, position, link: {type: 'generated-index', description}}.
Normalized(data) ==
    [st |-> "ok", has |-> TRUE, pos |-> data.position,
     cfg |-> [label |-> data.label, link |-> "generated-index",
              description |-> data.description, extra |-> FALSE]]

C17_WriteStep ==
    (last'.op = "saveEdit" /\ last'.info) =>
        LET dir == ResolveDir(fs, panel.path)
        IN  /\ dir # {}
            /\ \A i \in dir :
                  /\ SidecarOf(fs', i) = Normalized(panel'.data)
                  /\ \A j \in Ids \ {i} : fs'[j] = fs[j]
            /\ saveCategoryConfig(fs', dir, panel'.data, TRUE).fs = fs'

\* C17: writing {label, position, description} leaves the sidecar equal to
\* {label, position, link: {type: 'generated-index', description}} whatever
\* the sidecar held before, and writing the same data again changes nothing.
C17_NormalizedSidecar == [][C17_WriteStep]_vars

\* The settings of guide/, whose sidecar was hand-written or malformed, have
\* been saved with an empty description.
C17_Witness ==
    /\ last.op = "saveEdit" /\ last.info
    /\ panel.path = <<"guide">>
    /\ panel.data.description = ""
    /\ \A i \in ResolveDir(fs, panel.path) : SidecarOf(fs, i) = Normalized(panel.data)

\* The dialogs of deleteCategory itself that the user confirmed; the modal
\* dialog of the command precedes them.
HandlerConfirmations(l) == IF l.answers >= 1 THEN l.answers - 1 ELSE 0

\* The folder holds a document file.
HoldsDocuments(f, d) == \E i \in Ids : f[i].kind = "doc" /\ f[i].parent = d

C18_DeleteStep ==
    last'.op = "deleteCategory" =>
        LET item == last'.src
            tree == Subtree(fs, item)
            needed == IF HoldsDocuments(fs, item) THEN 2 ELSE 1
            given == HandlerConfirmations(last')
            rebuilt == getDocItemsFromPath(fs', imagesFolderMap', last'.dir, TRUE).items
        IN  /\ given < needed => fs' = fs
            /\ (given >= needed /\ ~last'.failed) =>
                  /\ \A i \in tree : fs'[i] = Free
                  /\ \A i \in Ids \ tree : fs'[i] = fs[i]
                  /\ last'.refreshed
                  /\ \A k \in 1..Len(rebuilt) : rebuilt[k].id # item

\* C18: deleteCategory deletes nothing without its confirmation, and nothing
\* without a second one when the folder holds document files; once they are
\* given the folder and everything below it are gone from the disk, nothing
\* else is touched, and the tree built next does not show the folder.
C18_DeleteNeedsConfirmation == [][C18_DeleteStep]_vars

\* guide/ with b.md and sub/c.md has been deleted after every confirmation.
C18_Witness ==
    /\ last.op = "deleteCategory" /\ last.src = 2 /\ last.answers = 3 /\ last.info
    /\ \A i \in 2..5 : fs[i] = Free
    /\ fs[1].kind = "doc"

\* C19: after every refresh the list of documents roots is non-empty.
C19_DocsRootsNonEmpty == roots.by # "init" => Len(roots.docsPaths) > 0

(***************************************************************************)
(* Unparsable frontmatter (checked under Spec)                             *)
(***************************************************************************)
\* The entries of d the reorder transaction lists, and those the tree shows.
TransactionList(f, d) ==
    LET items == getItemsInDirectory(f, d) IN {items[k].id : k \in 1..Len(items)}

TreeList(f, d) ==
    LET shown == DisplayOrder(f, d) IN {shown[k] : k \in 1..Len(shown)}

\* C20: a document whose frontmatter cannot be parsed is treated like one
\* without sidebar_position by the tree builder and by the reorder
\* transaction: after a renumbering of a folder each of its documents is
\* shown by the tree, is listed by the transaction, and has its position.
C20_UnparsableLikeUnpositioned ==
    (last.renumbered /\ last.fw = NoItem) =>
        \A i \in EntriesOf(fs, last.dir) :
            fs[i].kind = "doc" =>
                /\ i \in TreeList(fs, last.dir)
                /\ i \in TransactionList(fs, last.dir)
                /\ fs[i].has /\ fs[i].pos \in 1..Cardinality(Siblings(fs, last.dir))

(***************************************************************************)
(* Frontmatter writes (checked under SpecFrontmatter)                      *)
(***************************************************************************)
\* C21: a renumbering changes nothing of a document but its
\* sidebar_position: the body and the other frontmatter fields read back as
\* they were.
C21_OnlyPositionChanges ==
    [][\A i \in Ids :
          (fs[i].kind = "doc" /\ fs'[i].kind = "doc") =>
              (fs'[i].body = fs[i].body /\ fs'[i].cfg = fs[i].cfg)]_vars

(***************************************************************************)
(* Sidecar writes of the reorder transaction (checked under Spec)          *)
(***************************************************************************)
\* C22: after a renumbering of a folder every sub-folder of it has a sidecar
\* whose position is the folder's index + 1 in the renumbered list, also
\* when it had no sidecar before.
C22_FolderSidecarsWritten ==
    (last.renumbered /\ last.fw = NoItem) =>
        \A i \in EntriesOf(fs, last.dir) :
            fs[i].kind = "dir" =>
                /\ fs[i].st = "ok" /\ fs[i].has
                /\ fs[i].pos = findIndex(getItemsInDirectory(fs, last.dir), i)

(***************************************************************************)
(* The sibling list of the reorder transaction (checked under Spec)        *)
(***************************************************************************)
\* The list the reorder transaction works on, as entries.
TransactionOrder(f, d) ==
    LET items == getItemsInDirectory(f, d) IN [k \in 1..Len(items) |-> items[k].id]

\* C23: the sibling list a same-folder reorder works on is the list the tree
\* builder shows for that folder: the same documents and sub-folders in the
\* same order.
C23_SameSiblingList ==
    [][(last'.op = "reorder" /\ dirname(fs, last'.src) = dirname(fs, last'.tgt))
       => TransactionOrder(fs, dirname(fs, last'.src)) = DisplayOrder(fs, dirname(fs, last'.src))]_vars

(***************************************************************************)
(* Drag and drop of image-group nodes (SpecGroup)                          *)
(***************************************************************************)
\* The image-group nodes of the tree as last built: type 'folder', no entry
\* of their own, filePath the image folder the builder chose.
GroupItems == {children[k] : k \in {j \in 1..Len(children) : children[j].id = NoItem}}

\* The entry a filePath names, if any.
AtPath(f, path) == {i \in Ids : f[i].kind # "none" /\ PathOf(f, i) = path}

\* renameSync and everything after it in moveItemToFolder, for a source or a
\* target given by its filePath: a path that names nothing makes renameSync
\* throw, and the handler shows the error.
moveByPath(f, srcs, tgts, io, fw) ==
    IF srcs = {} \/ tgts = {}
    THEN [fs |-> f, moved |-> FALSE, renumbered |-> FALSE]
    ELSE moveItemToFolder(f, CHOOSE i \in srcs : TRUE, CHOOSE i \in tgts : TRUE, io, fw)

\* handleDrop of an image-group node onto a folder node.
DropGroupOnFolder ==
    \E g \in GroupItems, tgt \in Targets(fs), io \in BOOLEAN :
        /\ Cardinality(Sources(fs)) < MaxEntries
        /\ ItemType(fs, tgt) = "folder"
        /\ LET srcs == AtPath(fs, g.path)
               r == moveByPath(fs, srcs, {tgt}, io, NoItem)
           IN  /\ fs' = r.fs
               /\ last' = [NoLast EXCEPT !.op = "groupMove", !.tgt = tgt, !.dir = tgt, !.io = io,
                                         !.src = IF srcs = {} THEN NoItem ELSE CHOOSE i \in srcs : TRUE,
                                         !.moved = r.moved, !.renumbered = r.renumbered,
                                         !.failed = ~r.moved, !.error = ~r.moved, !.refreshed = TRUE]
        /\ UNCHANGED <<children, imagesFolderMap, locked, panel, roots, content>>

\* handleDrop of a document or folder node onto an image-group node.
DropOnGroup ==
    \E src \in Sources(fs), g \in GroupItems, io \in BOOLEAN :
        /\ Cardinality(Sources(fs)) < MaxEntries
        /\ ItemType(fs, src) # "image"
        /\ LET tgts == AtPath(fs, g.path)
               r == moveByPath(fs, {src}, tgts, io, NoItem)
           IN  /\ fs' = r.fs
               /\ last' = [NoLast EXCEPT !.op = "moveToGroup", !.src = src, !.io = io,
                                         !.tgt = IF tgts = {} THEN NoItem ELSE CHOOSE i \in tgts : TRUE,
                                         !.moved = r.moved, !.renumbered = r.renumbered,
                                         !.failed = ~r.moved, !.error = ~r.moved, !.refreshed = TRUE]
        /\ UNCHANGED <<children, imagesFolderMap, locked, panel, roots, content>>

\* docs/{a.md, guide/, x.png, [images/]}
InitGroup ==
    /\ \E has \in BOOLEAN, d \in {Free, Dir("images", Root, "absent", FALSE, 0)} :
         fs = [i \in Ids |->
                 IF i = 1 THEN Doc("a.md", Root, "ok", has, IF has THEN MaxInitPos ELSE 0)
                 ELSE IF i = 2 THEN Dir("guide", Root, "ok", TRUE, 1)
                 ELSE IF i = 3 THEN Img("x.png", Root)
                 ELSE IF i = 4 THEN d
                 ELSE Free]
    /\ last = NoLast
    /\ children = <<>>
    /\ imagesFolderMap = {}
    /\ locked = {}
    /\ panel = NoPanel
    /\ roots = NoRoots
    /\ content = NoContent

NextGroup == GetChildren \/ DropGroupOnFolder \/ DropOnGroup

SpecGroup == InitGroup /\ [][NextGroup]_vars

\* C24: a drag-and-drop gesture whose source or target is an image group
\* never renames or relocates a document or a folder.
C24_GroupNeverMoved ==
    [][last'.op \in {"groupMove", "moveToGroup"}
       => \A i \in Ids :
            fs[i].kind \in {"doc", "dir"}
            => (fs'[i].kind = fs[i].kind /\ fs'[i].name = fs[i].name /\ fs'[i].parent = fs[i].parent)]_vars

(***************************************************************************)
(* Order of the unpositioned children (checked under SpecTree)             *)
(***************************************************************************)
\* Nodes k and l of the built list, k shown before l, both without a position.
UnpositionedPair(k, l) == k < l /\ ~children[k].has /\ ~children[l].has

\* C25: among the children of a folder that have no explicit position,
\* folders come before documents and entries of the same kind are in
\* alphabetical order of their labels.
C25_UnpositionedOrder ==
    last.op \in {"build", "buildVirtual"} =>
        \A k, l \in 1..Len(children) :
            UnpositionedPair(k, l) =>
                /\ ~(children[k].type = "file" /\ children[l].type = "folder")
                /\ children[k].type = children[l].type => ~LabelLess(children[l], children[k])

(***************************************************************************)
(* Folders that cannot be read (SpecScan)                                  *)
(***************************************************************************)
\* getDocItemsFromPath of the current tree view on a folder that may not be
\* readable: existsSync is tested, readdirSync is called outside any try.
getDocItemsFromPathOrThrow(f, map, folder, io, readable) ==
    IF Exists(f, folder) /\ ~readable
    THEN [raised |-> TRUE, items |-> <<>>, fs |-> f, map |-> map]
    ELSE LET r == getDocItemsFromPath(f, map, folder, io)
         IN  [raised |-> FALSE, items |-> r.items, fs |-> r.fs, map |-> r.map]

\* getDocItemsFromPath of the earlier tree view: the whole scan is inside a
\* try whose catch returns [].
getDocItemsFromPathVirtualOrEmpty(f, folder, readable) ==
    IF Exists(f, folder) /\ ~readable THEN <<>> ELSE getDocItemsFromPathVirtual(f, folder)

\* The folder nodes a stale tree can hold: the root, the folders, and one
\* folder that has vanished since the tree was built.
ScanTargets(f) ==
    {Root} \cup {i \in Ids : f[i].kind = "dir"}
           \cup {i \in FreeIds(f) : \A j \in FreeIds(f) : i <= j}

\* getChildren(element) of the current tree view; an exception of the scan
\* leaves getChildren and no list is returned.
ScanFolder ==
    \E folder \in ScanTargets(fs), io \in BOOLEAN, readable \in BOOLEAN :
        LET r == getDocItemsFromPathOrThrow(fs, imagesFolderMap, folder, io, readable)
        IN  /\ children' = IF r.raised THEN children ELSE r.items
            /\ fs' = r.fs
            /\ imagesFolderMap' = r.map
            /\ last' = [NoLast EXCEPT !.op = IF r.raised THEN "scanRaised" ELSE "scan",
                                      !.tgt = folder, !.dir = folder, !.io = io,
                                      !.failed = ~Exists(fs, folder) \/ ~readable]
            /\ UNCHANGED <<locked, panel, roots, content>>

\* getChildren(element) of the earlier tree view.
ScanFolderEarlier ==
    \E folder \in ScanTargets(fs), readable \in BOOLEAN :
        /\ children' = getDocItemsFromPathVirtualOrEmpty(fs, folder, readable)
        /\ last' = [NoLast EXCEPT !.op = "scanEarlier", !.tgt = folder, !.dir = folder,
                                  !.failed = ~Exists(fs, folder) \/ ~readable]
        /\ UNCHANGED <<fs, imagesFolderMap, locked, panel, roots, content>>

NextScan == ScanFolder \/ ScanFolderEarlier

SpecScan == InitGroup /\ [][NextScan]_vars

\* C26: when the folder cannot be read, the tree builder returns an empty
\* child list and raises nothing to its caller.
C26_UnreadableGivesEmpty ==
    (last.op \in {"scan", "scanRaised", "scanEarlier"} /\ last.failed)
        => (last.op # "scanRaised" /\ children = <<>>)

(***************************************************************************)
(* The confirmation form until it is gone (SpecForm)                       *)
(***************************************************************************)
\* The user closes the tab of the confirmation form.  createNewCategory
\* subscribes to onDidReceiveMessage only: the panel is disposed and no code
\* of the extension runs.
PanelClose ==
    /\ panel.state = "AwaitingUserConfirmation"
    /\ panel' = [panel EXCEPT !.state = "Closed"]
    /\ last' = Outcome("closePanel", NoItem, panel.parent, FALSE, FALSE, FALSE, FALSE)
    /\ UNCHANGED <<fs, children, imagesFolderMap, locked, roots, content>>

\* A step of the user that makes the form go away: a save that succeeds, a
\* cancel, or closing the tab.
PanelEnds ==
    /\ PanelSave \/ PanelCancel \/ PanelClose
    /\ panel'.state # "AwaitingUserConfirmation"

NextForm == CreateCategory \/ PanelSave \/ PanelCancel \/ PanelClose

\* The form stays open until the user is done with it, and the user does not
\* leave it open for ever.
SpecForm == InitCategory /\ [][NextForm]_vars /\ WF_vars(PanelEnds)

\* C27: every category creation that has created its folder eventually ends
\* in Committed or Cancelled, whatever the user does with the form.
C27_CreationEnds ==
    (panel.state = "AwaitingUserConfirmation") ~> (panel.state \in {"Committed", "Cancelled"})

(***************************************************************************)
(* Content type of the module, the provider and the handlers (SpecContent) *)
(***************************************************************************)
ContentTypes == {"docs", "blog"}

\* initializeExtension(context, root): a new provider (whose field starts as
\* 'docs' and whose constructor refreshes), new handlers constructed with the
\* module's content type, then the tree view; createTreeView may throw, which
\* is caught.  root = FALSE is a root folder that does not exist.
InitializeExtension ==
    \E root \in BOOLEAN, viewCreated \in BOOLEAN :
        LET r == loadDocusaurusConfig(roots.ws)
        IN  /\ content' = IF ~root THEN content
                          ELSE [module |-> content.module, provider |-> "docs",
                                category |-> content.module, newFile |-> content.module,
                                view |-> content.view \/ viewCreated]
            /\ roots' = IF ~root THEN roots
                        ELSE [roots EXCEPT !.docsPaths = r.docsPaths, !.blogPaths = r.blogPaths,
                                           !.by = "initialize"]
            /\ last' = Outcome("initializeExtension", NoItem, Root, ~root, FALSE, ~root, root)
            /\ UNCHANGED <<fs, children, imagesFolderMap, locked, panel>>

\* The body the three switch commands share, for the content type they set.
setContentTypes(c, r, contentType) ==
    IF c.provider # "none" /\ c.view
    THEN [content |-> [c EXCEPT !.module = contentType, !.provider = contentType,
                                !.category = contentType, !.newFile = contentType],
          roots |-> [r EXCEPT !.docsPaths = loadDocusaurusConfig(r.ws).docsPaths,
                              !.blogPaths = loadDocusaurusConfig(r.ws).blogPaths,
                              !.by = "switch"]]
    ELSE [content |-> [c EXCEPT !.module = contentType], roots |-> r]

\* The commands exist once initializeExtension has registered them.
SwitchToDocs ==
    /\ content.provider # "none"
    /\ content' = setContentTypes(content, roots, "docs").content
    /\ roots' = setContentTypes(content, roots, "docs").roots
    /\ last' = Outcome("switchToDocs", NoItem, Root, FALSE, FALSE, content.view, content.view)
    /\ UNCHANGED <<fs, children, imagesFolderMap, locked, panel>>

SwitchToBlog ==
    /\ content.provider # "none"
    /\ content' = setContentTypes(content, roots, "blog").content
    /\ roots' = setContentTypes(content, roots, "blog").roots
    /\ last' = Outcome("switchToBlog", NoItem, Root, FALSE, FALSE, content.view, content.view)
    /\ UNCHANGED <<fs, children, imagesFolderMap, locked, panel>>

ToggleContentType ==
    LET contentType == IF content.module = "docs" THEN "blog" ELSE "docs"
    IN  /\ content.provider # "none"
        /\ content' = setContentTypes(content, roots, contentType).content
        /\ roots' = setContentTypes(content, roots, contentType).roots
        /\ last' = Outcome("toggleContentType", NoItem, Root, FALSE, FALSE, content.view, content.view)
        /\ UNCHANGED <<fs, children, imagesFolderMap, locked, panel>>

NextContent == InitializeExtension \/ SwitchToDocs \/ SwitchToBlog \/ ToggleContentType

SpecContent == InitRoots /\ [][NextContent]_vars

\* C28: in every state of the initialized extension the module's content
\* type, the provider's and the handlers' are equal.
C28_ContentTypesAgree ==
    content.provider # "none" =>
        /\ content.provider = content.module
        /\ content.category = content.module
        /\ content.newFile = content.module

(***************************************************************************)
(* Top-level roots of the tree (checked under SpecRoots)                   *)
(***************************************************************************)
\* getRootItems: the filePath of one folder item per path of the current
\* content type, or of the single placeholder item when there is none.
getRootItems(r, contentType) ==
    LET currentPaths == IF contentType = "docs" THEN r.docsPaths ELSE r.blogPaths
    IN  IF Len(currentPaths) = 0 THEN <<WorkspaceRoot>> ELSE currentPaths

\* C29: after a refresh each content folder appears at most once among the
\* top-level roots of its content type.
C29_RootsDistinct ==
    roots.by # "init" =>
        \A contentType \in ContentTypes :
            LET items == getRootItems(roots, contentType)
            IN  \A k, l \in 1..Len(items) : items[k] = items[l] => k = l

====
